---- MODULE Spec2Model ----
(***************************************************************************)
(* Model of RepoManager (src/repo_manager.py) and of the table helper of   *)
(* the web front end (src/app.py).                                         *)
(*                                                                         *)
(* The remote system (GitHub) is the environment: for every repository of  *)
(* the roster it holds the set of collaborators, the set of outside        *)
(* collaborators and the set of pending invitees.  Every request of the    *)
(* manager goes through the HTTP cache that requests_cache.install_cache   *)
(* installs: a GET answered with status 200 is stored and served again     *)
(* until clear_cache(); other statuses are never stored.                   *)
(***************************************************************************)
EXTENDS Integers, Sequences, FiniteSets, TLC

VARIABLES
    collab,     \* remote: repository name -> users with access (affiliation all)
    outside,    \* remote: repository name -> outside collaborators
    pending,    \* remote: repository name -> invitees of pending invitations
    down,       \* remote: the endpoints that answer with an error status
    cache,      \* the response cache: request key -> body of a stored 200
    changes,    \* number of changes the remote system has seen
    ret,        \* the outcome of the manager's last call
    prev,       \* the outcome of list_users the caller has kept
    remaining,  \* remote: the requests left of the core rate limit
    cleared,    \* no call of the manager has returned since clear_cache()
    sessions,   \* the caches of the process and the managers that use them
    handler     \* the response of the web front end's last request

\* what the calls of the manager and the remote system leave alone
others == <<prev, remaining, cleared, sessions, handler>>

vars == <<collab, outside, pending, down, cache, changes, ret, others>>

---------------------------------------------------------------------------
(* Bounds of the model *)

\* longest list of usernames handed to list_users / add_users
MaxBatch == 3
\* number of changes of the remote system during one behaviour
MaxChanges == 1
\* the core rate limit at construction
MaxRemaining == 3

---------------------------------------------------------------------------
(* Program constants *)

\* The roster, as (owner, name) pairs: two of the eleven entries.
REPOSITORIES == << <<"nrfconnect", "sdk-nrf-next">>, <<"nrfconnect", "sdk-ic-next">> >>

LIST_USER_CACHE_THRESHOLD == 3

\* class Access
MEMBER == "MEMBER"
OUTSIDE == "OUTSIDE"
PENDING == "PENDING"
NO_ACCESS == "NO_ACCESS"
Access == {MEMBER, OUTSIDE, PENDING, NO_ACCESS}

\* repo.name of the repository object built from a roster entry, and
\* repo.split("/")[1] of the table helpers
RepoName(full) == full[2]

\* self._repos, by name, in roster order
Repos == [i \in 1..Len(REPOSITORIES) |-> RepoName(REPOSITORIES[i])]
RosterNames == {Repos[i] : i \in 1..Len(Repos)}

---------------------------------------------------------------------------
(* The remote system *)

\* logins that resolve to a user of the remote system
Users == {"alice", "bob"}
\* logins a caller may type
Logins == Users \cup {"ghost"}

\* What may answer with an error status: nothing, the user lookup endpoint or
\* the endpoints of one repository.
Endpoints == {"users"} \cup RosterNames
Faults == {{}} \cup {{e} : e \in Endpoints}

\* Python values
None == [type |-> "NoneType"]
IntValue(n) == [type |-> "int", value |-> n]
Dict(items) == [type |-> "dict", items |-> items]
Tuple(added, message) == [type |-> "tuple", added |-> added, message |-> message]
EmptyDict == [k \in {} |-> NO_ACCESS]

\* request keys
UserKey(login) == <<"users", login>>
CollaboratorsKey(name, affiliation) == <<"collaborators", name, affiliation>>
ProbeKey(name, login) == <<"collaborator", name, login>>
InvitationsKey(name) == <<"invitations", name>>
RateLimitKey == <<"rate_limit", "core">>

Failing(key) ==
    IF key[1] = "users" THEN "users" \in down ELSE key[2] \in down

\* What the remote system holds under a key that lists users.
Data(key) ==
    IF key[1] = "users" THEN {key[2]} \cap Users
    ELSE IF key[1] = "collaborators" THEN
        IF key[3] = "outside" THEN outside[key[2]] ELSE collab[key[2]]
    ELSE IF key[1] = "invitations" THEN pending[key[2]]
    ELSE IF key[1] = "rate_limit" THEN {remaining}
    ELSE {}

\* The remote system's answer to a GET.
Respond(key) ==
    IF Failing(key) THEN [status |-> 403, body |-> {}]
    ELSE IF key[1] = "users" THEN
        [status |-> IF key[2] \in Users THEN 200 ELSE 404, body |-> Data(key)]
    ELSE IF key[1] = "collaborator" THEN
        [status |-> IF key[3] \in collab[key[2]] THEN 204 ELSE 404, body |-> {}]
    ELSE [status |-> 200, body |-> Data(key)]

\* requests_cache defaults: only status 200 is stored
ALLOWABLE_CODES == {200}

EmptyCache == [k \in {} |-> {}]

\* The installed cache during a call: the stored responses, and the log of
\* the GETs that went through it, each with whether the cache answered it.
Session(store) == [store |-> store, log |-> <<>>]
Logged(c, key, hit) == Append(c.log, [key |-> key, hit |-> hit])

\* The response r to a GET that missed the cache, and the cache after it.
Store(c, key, r) ==
    [status |-> r.status, body |-> r.body,
     cache |-> [store |-> IF r.status \in ALLOWABLE_CODES
                          THEN (key :> r.body) @@ c.store ELSE c.store,
                log |-> Logged(c, key, FALSE)]]

\* One GET through the installed cache, c being the cache before it.
CachedGet(c, key) ==
    IF key \in DOMAIN c.store
    THEN [status |-> 200, body |-> c.store[key],
          cache |-> [store |-> c.store, log |-> Logged(c, key, TRUE)]]
    ELSE Store(c, key, Respond(key))

---------------------------------------------------------------------------
(* RepoManager *)

NoExc == "none"
GithubException == "GithubException"
TypeError == "TypeError"
ValueError == "ValueError"

\* How a call, or a part of one, ends: with an exception or with a value; c is
\* the cache it leaves.
Raise(exc, c) == [exc |-> exc, cache |-> c, value |-> None]
Value(v, c) == [exc |-> NoExc, cache |-> c, value |-> v]

\* lines 102-105
FirstStatus(access) == IF access THEN MEMBER ELSE NO_ACCESS

\* lines 107-110: the list consulted is the outside collaborators when access
\* holds and the pending invitees otherwise
SecondKey(access, name) ==
    IF access THEN CollaboratorsKey(name, "outside") ELSE InvitationsKey(name)

\* the two refinements exchanged
RefineStatusSwapped(access, first, inList) ==
    IF access /\ inList THEN PENDING
    ELSE IF ~access /\ inList THEN OUTSIDE
    ELSE first

\* lines 107-110: the status after the list was searched for the user
RefineStatus(access, first, inList) ==
    IF access /\ inList THEN OUTSIDE
    ELSE IF ~access /\ inList THEN PENDING
    ELSE first

\* line 98: user in collaborators[repo.name], g being the response that holds
\* the lazy list
InList(user, g) ==
    [exc |-> IF g.status = 200 THEN NoExc ELSE GithubException,
     access |-> user \in g.body, cache |-> g.cache]

\* line 100: repo.has_in_collaborators(user) answers status == 204 and raises
\* for no status
HasInCollaborators(g) == [exc |-> NoExc, access |-> g.status = 204, cache |-> g.cache]

\* lines 97-100: collaborators is the set of keys of the dict handed in (empty
\* for {} and for None)
Membership(collaborators, c, name, user) ==
    IF collaborators # {}
    THEN InList(user, CachedGet(c, CollaboratorsKey(name, "all")))
    ELSE HasInCollaborators(CachedGet(c, ProbeKey(name, user)))

RECURSIVE ListUserRepoAccessFrom(_, _, _, _, _)

\* lines 102-110 for the i-th repository: access is the membership found, g the
\* response that holds the list consulted
SetStatus(i, user, collaborators, repos, access, g) ==
    IF g.status # 200 THEN Raise(GithubException, g.cache)
    ELSE ListUserRepoAccessFrom(
            i + 1, user, collaborators, g.cache,
            (Repos[i] :> RefineStatus(access, FirstStatus(access), user \in g.body))
                @@ repos)

\* lines 102-110 for the i-th repository, m being the outcome of lines 97-100
Classify(i, user, collaborators, repos, m) ==
    IF m.exc # NoExc THEN Raise(m.exc, m.cache)
    ELSE SetStatus(i, user, collaborators, repos, m.access,
                   CachedGet(m.cache, SecondKey(m.access, Repos[i])))

\* lines 95-111, from the i-th repository on; repos is the dict built so far
ListUserRepoAccessFrom(i, user, collaborators, c, repos) ==
    IF i > Len(Repos) THEN Value(Dict(repos), c)
    ELSE Classify(i, user, collaborators, repos,
                  Membership(collaborators, c, Repos[i], user))

\* _list_user_repo_access leaving the first repository out of the row
CallListUserRepoAccessSkipping(args, c) ==
    IF Len(args) # 2 THEN Raise(TypeError, c)
    ELSE ListUserRepoAccessFrom(2, args[1], args[2], c, EmptyDict)

\* _list_user_repo_access(self, user, collaborators): both parameters are
\* required, so a call that hands in the user alone raises TypeError
CallListUserRepoAccess(args, c) ==
    IF Len(args) # 2 THEN Raise(TypeError, c)
    ELSE ListUserRepoAccessFrom(1, args[1], args[2], c, EmptyDict)

\* list_repo_access answering a failed lookup with a row of NO_ACCESS
ResolvedConflated(username, collaborators, g) ==
    IF g.status # 200 THEN Value(Dict([n \in RosterNames |-> NO_ACCESS]), g.cache)
    ELSE CallListUserRepoAccess(<<username, collaborators>>, g.cache)

\* lines 128-133, g being the response to get_user
Resolved(username, collaborators, g) ==
    IF g.status # 200 THEN Value(None, g.cache)
    ELSE CallListUserRepoAccess(<<username, collaborators>>, g.cache)

\* list_repo_access(self, username, collaborators)
ListRepoAccess(username, collaborators, c) ==
    Resolved(username, collaborators, CachedGet(c, UserKey(username)))

\* the lists handed on only above the threshold
PrefetchedAbove(usernames) ==
    IF Len(usernames) > LIST_USER_CACHE_THRESHOLD THEN RosterNames ELSE {}

\* lines 158-161: the dict of lazy collaborator lists, by its keys
Prefetched(usernames) ==
    IF Len(usernames) >= LIST_USER_CACHE_THRESHOLD THEN RosterNames ELSE {}

RECURSIVE ListUsersFrom(_, _, _, _, _)

\* line 163 for the i-th username, one being the outcome of list_repo_access
ListUsersPut(i, usernames, collaborators, acc, one) ==
    IF one.exc # NoExc THEN Raise(one.exc, one.cache)
    ELSE ListUsersFrom(i + 1, usernames, collaborators, one.cache,
                       (usernames[i] :> one.value) @@ acc)

\* line 163, from the i-th username on
ListUsersFrom(i, usernames, collaborators, c, acc) ==
    IF i > Len(usernames) THEN Value(Dict(acc), c)
    ELSE ListUsersPut(i, usernames, collaborators, acc,
                      ListRepoAccess(usernames[i], collaborators, c))

\* list_users(self, usernames)
ListUsers(usernames, c) ==
    ListUsersFrom(1, usernames, Prefetched(usernames), c, EmptyDict)

\* The order in which the remote system lists users.
UserOrder == <<"alice", "bob">>
Listing(S) == SelectSeq(UserOrder, LAMBDA u : u \in S)

\* what lines 226-232 have fetched
Fetched(c, outs, invs, all_outside) ==
    [exc |-> NoExc, cache |-> c, outs |-> outs, invs |-> invs,
     all_outside |-> all_outside]
FetchRaise(c) ==
    [exc |-> GithubException, cache |-> c, outs |-> EmptyDict, invs |-> EmptyDict,
     all_outside |-> <<>>]

RECURSIVE ScanFetchFrom(_, _, _, _, _)

\* line 232 extending the subject population with the invitees as well
ScanExtendInvitees(i, outs, invs, all_outside, gi, go) ==
    IF go.status # 200 THEN FetchRaise(go.cache)
    ELSE ScanFetchFrom(i + 1, go.cache, (Repos[i] :> go.body) @@ outs,
                       (Repos[i] :> gi.body) @@ invs,
                       all_outside \o Listing(go.body \cup gi.body))

\* line 232 for the i-th repository: the += reads the lazy list of outside
\* collaborators, go being the response
ScanExtend(i, outs, invs, all_outside, gi, go) ==
    IF go.status # 200 THEN FetchRaise(go.cache)
    ELSE ScanFetchFrom(i + 1, go.cache, (Repos[i] :> go.body) @@ outs,
                       (Repos[i] :> gi.body) @@ invs,
                       all_outside \o Listing(go.body))

\* lines 227-231 for the i-th repository: the two collaborator lists are lazy,
\* the list comprehension reads the invitations, gi being the response
ScanEntry(i, outs, invs, all_outside, gi) ==
    IF gi.status # 200 THEN FetchRaise(gi.cache)
    ELSE ScanExtend(i, outs, invs, all_outside, gi,
                    CachedGet(gi.cache, CollaboratorsKey(Repos[i], "outside")))

\* lines 226-232, from the i-th repository on
ScanFetchFrom(i, c, outs, invs, all_outside) ==
    IF i > Len(Repos) THEN Fetched(c, outs, invs, all_outside)
    ELSE ScanEntry(i, outs, invs, all_outside, CachedGet(c, InvitationsKey(Repos[i])))

\* lines 241-244: the status of a collaborator who is not in the repository's
\* outside list, all and invs being the two other lists
ScanStatus(collaborator, all, invs, status) ==
    IF collaborator \in all THEN MEMBER
    ELSE IF collaborator \in invs THEN PENDING
    ELSE status

RECURSIVE ScanClassifyFrom(_, _, _, _, _, _)

\* lines 241-244 for the i-th repository: the search reads the lazy list of all
\* collaborators, ga being the response
ScanSearchAll(i, collaborator, outs, invs, access_map, ga) ==
    IF ga.status # 200 THEN Raise(GithubException, ga.cache)
    ELSE ScanClassifyFrom(
            i + 1, collaborator, ga.cache, outs, invs,
            (Repos[i] :> ScanStatus(collaborator, ga.body, invs[Repos[i]],
                                    access_map[Repos[i]])) @@ access_map)

\* lines 238-244, from the i-th repository on, for one collaborator
ScanClassifyFrom(i, collaborator, c, outs, invs, access_map) ==
    IF i > Len(Repos) THEN Value(Dict(access_map), c)
    ELSE IF collaborator \in outs[Repos[i]]
    THEN ScanClassifyFrom(i + 1, collaborator, c, outs, invs,
                          (Repos[i] :> OUTSIDE) @@ access_map)
    ELSE ScanSearchAll(i, collaborator, outs, invs, access_map,
                       CachedGet(c, CollaboratorsKey(Repos[i], "all")))

\* line 236
InitialAccessMap == [n \in RosterNames |-> NO_ACCESS]

RECURSIVE ScanUsersFrom(_, _, _, _, _, _)

\* line 237 for the k-th entry, one being the outcome of lines 238-244
ScanPut(k, all_outside, outs, invs, collaborator_access_map, one) ==
    IF one.exc # NoExc THEN Raise(one.exc, one.cache)
    ELSE ScanUsersFrom(k + 1, all_outside, one.cache, outs, invs,
                       (all_outside[k] :> one.value) @@ collaborator_access_map)

\* lines 234-246, from the k-th entry of all_outside_collaborators on
ScanUsersFrom(k, all_outside, c, outs, invs, collaborator_access_map) ==
    IF k > Len(all_outside) THEN Value(Dict(collaborator_access_map), c)
    ELSE ScanPut(k, all_outside, outs, invs, collaborator_access_map,
                 ScanClassifyFrom(1, all_outside[k], c, outs, invs, InitialAccessMap))

\* lines 234-246, f being what lines 226-232 have fetched
ScanClassifyAll(f) ==
    IF f.exc # NoExc THEN Raise(f.exc, f.cache)
    ELSE ScanUsersFrom(1, f.all_outside, f.cache, f.outs, f.invs, EmptyDict)

\* list_outside_collaborators(self)
ListOutsideCollaborators(c) ==
    ScanClassifyAll(ScanFetchFrom(1, c, EmptyDict, EmptyDict, <<>>))

\* line 254, g being the response to get_rate_limit
RateLimitCore(g) ==
    IF g.status # 200 THEN Raise(GithubException, g.cache)
    ELSE Value(IntValue(CHOOSE n \in g.body : TRUE), g.cache)

\* get_available_requests(self)
GetAvailableRequests(c) == RateLimitCore(CachedGet(c, RateLimitKey))

\* How add_user, or a part of it, ends: pend is the remote system's pending
\* invitations and adds the add_to_collaborators calls issued.
Added(exc, v, c, pend, adds) ==
    [exc |-> exc, cache |-> c, value |-> v, pending |-> pend, adds |-> adds]

\* repo.add_to_collaborators(user, permission="pull"): a PUT, never served from
\* the cache; accepted, it invites a user who has no access yet
AddToCollaborators(name, user, pend) ==
    IF name \in down THEN [status |-> 403, pending |-> pend]
    ELSE IF user \in collab[name] THEN [status |-> 204, pending |-> pend]
    ELSE [status |-> 201, pending |-> [pend EXCEPT ![name] = @ \cup {user}]]

RECURSIVE AddToAllFrom(_, _, _, _, _)

\* lines 191-195 for the i-th repository, a being the answer to the PUT: the
\* loop runs inside the try, and the handler's test "message" in e, on an
\* exception object, raises TypeError
AddNext(i, user, c, adds, a) ==
    IF a.status \notin {201, 204}
    THEN Added(TypeError, None, c, a.pending,
               Append(adds, [repo |-> Repos[i], user |-> user, status |-> a.status]))
    ELSE AddToAllFrom(i + 1, user, c, a.pending,
               Append(adds, [repo |-> Repos[i], user |-> user, status |-> a.status]))

\* lines 189-197, from the i-th repository on
AddToAllFrom(i, user, c, pend, adds) ==
    IF i > Len(Repos) THEN Added(NoExc, Tuple(TRUE, <<>>), c, pend, adds)
    ELSE AddNext(i, user, c, adds, AddToCollaborators(Repos[i], user, pend))

\* lines 185-197, access_list being the outcome of line 184: line 185 unpacks
\* each key of the dict, a string, into (repo_name, access)
AddChecked(username, pend, adds, access_list) ==
    IF access_list.exc # NoExc
    THEN Added(access_list.exc, None, access_list.cache, pend, adds)
    ELSE IF DOMAIN access_list.value.items # {}
    THEN Added(ValueError, None, access_list.cache, pend, adds)
    ELSE AddToAllFrom(1, username, access_list.cache, pend, adds)

\* add_user reading the invitations of the first repository before it reports
\* a user who was not found
AddResolvedAsking(username, pend, adds, g) ==
    IF g.status # 200
    THEN Added(NoExc, Tuple(FALSE, <<"Username not found">>),
               CachedGet(g.cache, InvitationsKey(Repos[1])).cache, pend, adds)
    ELSE AddChecked(username, pend, adds, CallListUserRepoAccess(<<username>>, g.cache))

\* lines 179-197, g being the response to get_user: line 184 hands
\* _list_user_repo_access the user alone
AddResolved(username, pend, adds, g) ==
    IF g.status # 200
    THEN Added(NoExc, Tuple(FALSE, <<"Username not found">>), g.cache, pend, adds)
    ELSE AddChecked(username, pend, adds, CallListUserRepoAccess(<<username>>, g.cache))

\* add_user(self, username)
AddUser(username, c, pend, adds) ==
    AddResolved(username, pend, adds, CachedGet(c, UserKey(username)))

RECURSIVE AddUsersFrom(_, _, _, _, _, _)

\* line 214 for the i-th username, one being the outcome of add_user
AddUsersPut(i, usernames, acc, one) ==
    IF one.exc # NoExc THEN one
    ELSE AddUsersFrom(i + 1, usernames, one.cache, one.pending, one.adds,
                      (usernames[i] :> one.value) @@ acc)

\* line 214, from the i-th username on
AddUsersFrom(i, usernames, c, pend, adds, acc) ==
    IF i > Len(usernames) THEN Added(NoExc, Dict(acc), c, pend, adds)
    ELSE AddUsersPut(i, usernames, acc, AddUser(usernames[i], c, pend, adds))

\* add_users(self, usernames)
AddUsers(usernames, c, pend) == AddUsersFrom(1, usernames, c, pend, <<>>, EmptyDict)

---------------------------------------------------------------------------
(* The table helper of the web front end *)

\* Python truth value of a dict or None
Truthy(v) == v.type = "dict" /\ DOMAIN v.items # {}

\* app.py lines 18-29: the users given a row and the users flashed as not found
CreateTable(mapping) ==
    [rows |-> {user \in DOMAIN mapping.items : Truthy(mapping.items[user])},
     flashed |-> {user \in DOMAIN mapping.items : ~Truthy(mapping.items[user])}]

---------------------------------------------------------------------------
(* State machine *)

\* The lists of usernames a caller hands in: up to MaxBatch logins, repeats
\* allowed, in ascending order.
LoginRank(login) == IF login = "alice" THEN 1 ELSE IF login = "bob" THEN 2 ELSE 3
Batches ==
    {b \in UNION {[1..n -> Logins] : n \in 1..MaxBatch} :
        \A i \in 1..(Len(b) - 1) : LoginRank(b[i]) <= LoginRank(b[i + 1])}

\* no call is under way and no result is held by the caller
Idle ==
    [op |-> "idle", args |-> <<>>, exc |-> NoExc, value |-> None, adds |-> <<>>,
     log |-> <<>>]

\* The session ids of the web front end (the ids of GitHub users).
Ids == {"1", "2"}

\* No manager exists: no cache is installed, and the cache files are empty.
\* stores[id] is the cache github_cache_<id>, fetcher[id][key] the manager
\* whose request stored the entry, build the way the client library makes
\* its HTTP sessions, caller the manager of the last call.
NoSessions ==
    [installed |-> "none", build |-> "unset", created |-> {},
     stores |-> [id \in Ids |-> EmptyCache],
     fetcher |-> [id \in Ids |-> EmptyCache],
     caller |-> "none"]

\* No request has been answered.
NoResponse ==
    [route |-> "none", method |-> "none", args |-> <<>>, status |-> 0,
     rows |-> {}, flashed |-> {}, log |-> <<>>]

\* The remote system at construction: alice's access to each repository is
\* arbitrary (outside collaborators are collaborators), bob is an outside
\* collaborator of the first repository and nothing else.
Init ==
    /\ collab \in [RosterNames -> SUBSET Users]
    /\ outside \in [RosterNames -> SUBSET Users]
    /\ pending \in [RosterNames -> SUBSET Users]
    /\ \A n \in RosterNames : outside[n] \subseteq collab[n]
    /\ \A n \in RosterNames :
          /\ "bob" \notin pending[n]
          /\ "bob" \in collab[n] <=> n = Repos[1]
          /\ "bob" \in outside[n] <=> n = Repos[1]
    /\ down = {}
    /\ cache = EmptyCache
    /\ changes = 0
    /\ ret = Idle
    /\ prev = Idle
    /\ remaining = MaxRemaining
    /\ cleared = FALSE
    /\ sessions = NoSessions
    /\ handler = NoResponse

\* A call of the manager ends with outcome r.
Call(op, args, r) ==
    /\ ret = Idle
    /\ cache' = r.cache.store
    /\ ret' = [op |-> op, args |-> args, exc |-> r.exc, value |-> r.value,
               adds |-> <<>>, log |-> r.cache.log]
    /\ UNCHANGED <<collab, outside, pending, down, changes>>
    /\ UNCHANGED others

\* A call of add_user or add_users ends with outcome r.
CallAdd(op, args, r) ==
    /\ ret = Idle
    /\ cache' = r.cache.store
    /\ pending' = r.pending
    /\ ret' = [op |-> op, args |-> args, exc |-> r.exc, value |-> r.value,
               adds |-> r.adds, log |-> r.cache.log]
    /\ UNCHANGED <<collab, outside, down, changes>>
    /\ UNCHANGED others

\* manager.list_repo_access(username)
DoListRepoAccess(username) ==
    Call("list_repo_access", <<username>>, ListRepoAccess(username, {}, Session(cache)))

\* manager.list_users(usernames)
DoListUsers(usernames) ==
    Call("list_users", usernames, ListUsers(usernames, Session(cache)))

\* manager.list_outside_collaborators()
DoListOutsideCollaborators ==
    Call("list_outside_collaborators", <<>>, ListOutsideCollaborators(Session(cache)))

\* manager.add_user(username)
DoAddUser(username) ==
    CallAdd("add_user", <<username>>, AddUser(username, Session(cache), pending, <<>>))

\* manager.add_users(usernames)
DoAddUsers(usernames) ==
    CallAdd("add_users", usernames, AddUsers(usernames, Session(cache), pending))

\* clear_cache keeping the stored lists of collaborators
DoClearCacheKeepingLists ==
    /\ ret = Idle
    /\ cache # EmptyCache
    /\ cache' = [k \in {j \in DOMAIN cache : j[1] = "collaborators"} |-> cache[k]]
    /\ cleared' = TRUE
    /\ UNCHANGED <<collab, outside, pending, down, changes, ret, prev, remaining,
                   sessions, handler>>

\* manager.clear_cache(), lines 256-258
DoClearCache ==
    /\ ret = Idle
    /\ cache # EmptyCache
    /\ cache' = EmptyCache
    /\ cleared' = TRUE
    /\ UNCHANGED <<collab, outside, pending, down, changes, ret, prev, remaining,
                   sessions, handler>>

\* The caller takes the outcome of the call.
Return ==
    /\ ret # Idle
    /\ ret' = Idle
    /\ cleared' = FALSE
    /\ UNCHANGED <<collab, outside, pending, down, cache, changes, prev, remaining,
                   sessions, handler>>

\* The remote system: a user is invited to a repository.
Invited(u, n) ==
    /\ ret = Idle
    /\ changes < MaxChanges
    /\ changes' = changes + 1
    /\ u \notin collab[n] \cup pending[n]
    /\ pending' = [pending EXCEPT ![n] = @ \cup {u}]
    /\ UNCHANGED <<collab, outside, down, cache, ret>>
    /\ UNCHANGED others

\* The remote system: an invitee accepts and becomes an outside collaborator.
Accepted(u, n) ==
    /\ ret = Idle
    /\ changes < MaxChanges
    /\ changes' = changes + 1
    /\ u \in pending[n] \ collab[n]
    /\ pending' = [pending EXCEPT ![n] = @ \ {u}]
    /\ collab' = [collab EXCEPT ![n] = @ \cup {u}]
    /\ outside' = [outside EXCEPT ![n] = @ \cup {u}]
    /\ UNCHANGED <<down, cache, ret>>
    /\ UNCHANGED others

\* The remote system: a user loses the access to a repository.
Removed(u, n) ==
    /\ ret = Idle
    /\ changes < MaxChanges
    /\ changes' = changes + 1
    /\ u \in collab[n]
    /\ collab' = [collab EXCEPT ![n] = @ \ {u}]
    /\ outside' = [outside EXCEPT ![n] = @ \ {u}]
    /\ UNCHANGED <<pending, down, cache, ret>>
    /\ UNCHANGED others

\* An endpoint of the remote system starts or stops answering with an error.
RemoteFault(d) ==
    /\ ret = Idle
    /\ changes < MaxChanges
    /\ changes' = changes + 1
    /\ d # down
    /\ down' = d
    /\ UNCHANGED <<collab, outside, pending, cache, ret>>
    /\ UNCHANGED others

\* the users whose access the remote system changes while the manager runs
Changing == {"alice"}

Next ==
    \/ \E username \in Logins : DoListRepoAccess(username)
    \/ \E usernames \in Batches : DoListUsers(usernames)
    \/ DoListOutsideCollaborators
    \/ \E username \in Logins : DoAddUser(username)
    \/ \E usernames \in Batches : DoAddUsers(usernames)
    \/ DoClearCache
    \/ Return
    \/ \E u \in Changing, n \in RosterNames : Invited(u, n)
    \/ \E u \in Changing, n \in RosterNames : Accepted(u, n)
    \/ \E u \in Changing, n \in RosterNames : Removed(u, n)
    \/ \E d \in Faults : RemoteFault(d)

Spec == Init /\ [][Next]_vars

---------------------------------------------------------------------------
(* A caller that asks for the requests left while the remote system counts *)

\* manager.get_available_requests()
DoGetAvailableRequests ==
    Call("get_available_requests", <<>>, GetAvailableRequests(Session(cache)))

\* The remote system counts a request of the token against the core limit.
Spent ==
    /\ ret = Idle
    /\ remaining > 0
    /\ remaining' = remaining - 1
    /\ UNCHANGED <<collab, outside, pending, down, cache, changes, ret, prev, cleared,
                   sessions, handler>>

NextBudget ==
    \/ DoGetAvailableRequests
    \/ DoClearCache
    \/ Return
    \/ Spent

SpecBudget == Init /\ [][NextBudget]_vars

---------------------------------------------------------------------------
(* A caller that invokes list_users repeatedly and keeps the last outcome *)

\* The caller takes the outcome of the call and keeps that of list_users.
ReturnKept ==
    /\ ret # Idle
    /\ ret' = Idle
    /\ prev' = IF ret.op = "list_users" THEN [ret EXCEPT !.log = <<>>] ELSE prev
    /\ cleared' = FALSE
    /\ UNCHANGED <<collab, outside, pending, down, cache, changes, remaining,
                   sessions, handler>>

\* manager.clear_cache(), lines 256-258; the caller drops the outcome it kept
DoClearCacheKept ==
    /\ ret = Idle
    /\ cache # EmptyCache
    /\ cache' = EmptyCache
    /\ prev' = Idle
    /\ cleared' = TRUE
    /\ UNCHANGED <<collab, outside, pending, down, changes, ret, remaining,
                   sessions, handler>>

NextTwice ==
    \/ \E usernames \in Batches : DoListUsers(usernames)
    \/ DoClearCacheKept
    \/ ReturnKept
    \/ \E u \in Changing, n \in RosterNames : Invited(u, n)
    \/ \E u \in Changing, n \in RosterNames : Accepted(u, n)
    \/ \E u \in Changing, n \in RosterNames : Removed(u, n)
    \/ \E d \in Faults : RemoteFault(d)

SpecTwice == Init /\ [][NextTwice]_vars

---------------------------------------------------------------------------
(* Two callers of the web front end, each with a manager of its own.       *)
(* requests_cache.install_cache replaces the session class of the whole    *)
(* process, and requests_cache.clear() clears the cache installed last.    *)
(* The client library either keeps the HTTP session it made when the       *)
(* manager made its first request, or makes a new one for every request:   *)
(* the build decides, and the model takes either.                          *)

Builds == {"kept", "fresh"}

\* the request of self._g.get_repo(repo)
RepoKey(name) == <<"repos", name>>

RECURSIVE GetReposFrom(_, _)

\* line 71, g being the response to get_repo
GotRepo(i, g) ==
    IF g.status # 200 THEN Raise(GithubException, g.cache)
    ELSE GetReposFrom(i + 1, g.cache)

\* line 71, from the i-th entry of the roster on
GetReposFrom(i, c) ==
    IF i > Len(Repos) THEN Value(None, c)
    ELSE GotRepo(i, CachedGet(c, RepoKey(Repos[i])))

\* The cache the requests of manager m go through.
Bound(m) == IF sessions.build = "kept" THEN m ELSE sessions.installed

\* The caches after a call of manager m that went through cache id and ended
\* with outcome r: what the call stored was fetched by m.
Through(m, id, r) ==
    [sessions EXCEPT
        !.stores[id] = r.cache.store,
        !.fetcher[id] = [k \in DOMAIN r.cache.store |->
                            IF k \in DOMAIN sessions.fetcher[id]
                            THEN sessions.fetcher[id][k] ELSE m],
        !.caller = m]

\* app.py lines 91-103 and RepoManager.__init__: the manager of session id is
\* dropped, the cache of id is installed, and the manager is kept if every
\* repository of the roster was fetched.
Constructed(id, b, r) ==
    /\ ret = Idle
    /\ sessions' = [installed |-> id, build |-> b,
                    created |-> IF r.exc = NoExc THEN sessions.created \cup {id}
                                ELSE sessions.created \ {id},
                    stores |-> Through(id, id, r).stores,
                    fetcher |-> Through(id, id, r).fetcher,
                    caller |-> id]
    /\ ret' = [op |-> "RepoManager", args |-> <<id>>, exc |-> r.exc,
               value |-> r.value, adds |-> <<>>, log |-> r.cache.log]
    /\ UNCHANGED <<collab, outside, pending, down, cache, changes, prev, remaining,
                   cleared, handler>>

\* RepoManager(oauth_token, id)
Construct(id) ==
    \E b \in IF sessions.build = "unset" THEN Builds ELSE {sessions.build} :
        Constructed(id, b, GetReposFrom(1, Session(sessions.stores[id])))

\* A call of manager m through cache id ends with outcome r.
CallOf(m, id, op, args, r) ==
    /\ ret = Idle
    /\ m \in sessions.created
    /\ sessions' = Through(m, id, r)
    /\ ret' = [op |-> op, args |-> args, exc |-> r.exc, value |-> r.value,
               adds |-> <<>>, log |-> r.cache.log]
    /\ UNCHANGED <<collab, outside, pending, down, cache, changes, prev, remaining,
                   cleared, handler>>

\* users[m]["manager"].list_repo_access(username)
DoListRepoAccessOf(m, username) ==
    CallOf(m, Bound(m), "list_repo_access", <<username>>,
           ListRepoAccess(username, {}, Session(sessions.stores[Bound(m)])))

\* users[m]["manager"].clear_cache(), lines 256-258: requests_cache.clear()
\* empties the installed cache
DoClearCacheOf(m) ==
    /\ ret = Idle
    /\ m \in sessions.created
    /\ sessions' = [sessions EXCEPT !.stores[sessions.installed] = EmptyCache,
                                    !.fetcher[sessions.installed] = EmptyCache,
                                    !.caller = m]
    /\ ret' = [Idle EXCEPT !.op = "clear_cache"]
    /\ UNCHANGED <<collab, outside, pending, down, cache, changes, prev, remaining,
                   cleared, handler>>

\* the usernames both callers ask for
Shared == {"alice"}

NextSessions ==
    \/ \E id \in Ids : Construct(id)
    \/ \E m \in Ids, username \in Shared : DoListRepoAccessOf(m, username)
    \/ \E m \in Ids : DoClearCacheOf(m)
    \/ Return
    \/ \E d \in Faults : RemoteFault(d)

SpecSessions == Init /\ [][NextSessions]_vars

---------------------------------------------------------------------------
(* The routes of the web front end, for a caller that is logged in.  A     *)
(* request runs its handler to the end; an exception the handler does not  *)
(* catch ends the request with status 500.                                 *)

\* The end of a request: the status, the rows of the table, the usernames a
\* message was flashed for, the cache and the invitations it leaves.
Page(status, rows, flashed, c, pend) ==
    [status |-> status, rows |-> rows, flashed |-> flashed, cache |-> c,
     pending |-> pend]

\* the handler stops at an exception of the manager
Stopped(r, pend) == Page(500, {}, {}, r.cache, pend)

\* manager.clear_cache() inside a request
Cleared(c) == [store |-> EmptyCache, log |-> c.log]

\* app.py lines 143-148 and 193-198, t being the table and b the outcome of
\* get_available_requests
Rendered(t, b, pend) ==
    IF b.exc # NoExc THEN Stopped(b, pend)
    ELSE Page(200, t.rows, t.flashed, b.cache, pend)

\* app.py lines 142-144 and 192-194, r being the outcome of the manager's call
Tabled(r, pend) ==
    IF r.exc # NoExc THEN Stopped(r, pend)
    ELSE Rendered(CreateTable(r.value), GetAvailableRequests(r.cache), pend)

\* app.py lines 131-148 for a POST, a being the outcome of line 132
CheckUsersPosted(usernames, a, pend) ==
    IF a.exc # NoExc THEN Stopped(a, pend)
    ELSE Tabled(ListUsers(usernames, Cleared(a.cache)), pend)

\* app.py lines 184-198 for a POST, a being the outcome of line 185
ListUsersPosted(a, pend) ==
    IF a.exc # NoExc THEN Stopped(a, pend)
    ELSE Tabled(ListOutsideCollaborators(Cleared(a.cache)), pend)

\* app.py lines 165-171: the usernames a message is flashed for
Flashed(res) ==
    {username \in DOMAIN res.items :
        res.items[username].added \/ res.items[username].message # <<>>}

\* app.py lines 164-174, r being the outcome of manager.add_users
AddUsersDone(r) ==
    IF r.exc # NoExc THEN Stopped(r, r.pending)
    ELSE Page(302, {}, Flashed(r.value), Cleared(r.cache), r.pending)

\* app.py lines 154-174 for a POST, a being the outcome of line 155
AddUsersPosted(usernames, a, pend) ==
    IF a.exc # NoExc THEN Stopped(a, pend)
    ELSE AddUsersDone(AddUsers(usernames, a.cache, pend))

\* app.py lines 131-132, 154-155, 184-185 and the render: a GET
Got(a, pend) ==
    IF a.exc # NoExc THEN Stopped(a, pend)
    ELSE Page(200, {}, {}, a.cache, pend)

Routes == {"check_users", "add_users", "list_users"}

\* A request ends with page p.
Request(route, method, args, p) ==
    /\ ret = Idle
    /\ handler = NoResponse
    /\ cache' = p.cache.store
    /\ pending' = p.pending
    /\ handler' = [route |-> route, method |-> method, args |-> args,
                   status |-> p.status, rows |-> p.rows, flashed |-> p.flashed,
                   log |-> p.cache.log]
    /\ UNCHANGED <<collab, outside, down, changes, ret, prev, remaining, cleared,
                   sessions>>

\* GET /check_users/, /add_users/ or /list_users/
Get(route) ==
    Request(route, "GET", <<>>,
            Got(GetAvailableRequests(Session(cache)), pending))

\* POST /check_users/ with the usernames of the form
PostCheckUsers(usernames) ==
    Request("check_users", "POST", usernames,
            CheckUsersPosted(usernames, GetAvailableRequests(Session(cache)), pending))

\* POST /add_users/ with the usernames of the form
PostAddUsers(usernames) ==
    Request("add_users", "POST", usernames,
            AddUsersPosted(usernames, GetAvailableRequests(Session(cache)), pending))

\* POST /list_users/
PostListUsers ==
    Request("list_users", "POST", <<>>,
            ListUsersPosted(GetAvailableRequests(Session(cache)), pending))

\* The caller has the page of the request.
Served ==
    /\ handler # NoResponse
    /\ handler' = NoResponse
    /\ UNCHANGED <<collab, outside, pending, down, cache, changes, ret, prev,
                   remaining, cleared, sessions>>

NextWeb ==
    \/ \E route \in Routes : Get(route)
    \/ \E usernames \in Batches : PostCheckUsers(usernames)
    \/ \E usernames \in Batches : PostAddUsers(usernames)
    \/ PostListUsers
    \/ Served
    \/ \E u \in Changing, n \in RosterNames : Invited(u, n)
    \/ \E u \in Changing, n \in RosterNames : Accepted(u, n)
    \/ \E u \in Changing, n \in RosterNames : Removed(u, n)
    \/ \E d \in Faults : RemoteFault(d)

SpecWeb == Init /\ [][NextWeb]_vars

---------------------------------------------------------------------------
(* What a call observed.  A call starts when no result is held, and the     *)
(* remote system changes only then, so in a state that holds a result the  *)
(* remote system, and every response the call got, are those of the call.  *)

\* the response a GET of key gets
View(key) == CachedGet(Session(cache), key)

\* the call ended with a value
Returned(op) == ret.op = op /\ ret.exc = NoExc

\* the usernames of the call
Requested == {ret.args[i] : i \in 1..Len(ret.args)}

\* the signals of user u in repository n: membership as the call tested it
\* (the prefetched list for a batch at the threshold, the probe otherwise), the
\* outside collaborators and the pending invitees
ByList == ret.op = "list_users" /\ Len(ret.args) >= LIST_USER_CACHE_THRESHOLD
SeenAccess(u, n) ==
    IF ByList THEN u \in View(CollaboratorsKey(n, "all")).body
    ELSE View(ProbeKey(n, u)).status = 204
SeenOutside(u, n) == u \in View(CollaboratorsKey(n, "outside")).body
SeenPending(u, n) == u \in View(InvitationsKey(n)).body

\* the fixed precedence of the access statuses
Precedence(collaborator, inOutside, inPending) ==
    IF collaborator /\ inOutside THEN OUTSIDE
    ELSE IF collaborator THEN MEMBER
    ELSE IF inPending THEN PENDING
    ELSE NO_ACCESS

\* the result of list_repo_access or list_users for username u
ResolvedAs(u) ==
    IF ret.op = "list_repo_access" THEN ret.value ELSE ret.value.items[u]

Resolving == Returned("list_repo_access") \/ Returned("list_users")

\* C1: every row that list_repo_access or list_users returns gives each
\* repository the status of the fixed precedence: OUTSIDE for a collaborator in
\* the outside set, MEMBER for another collaborator, PENDING for a
\* non-collaborator in the pending set, NO_ACCESS otherwise.
C1_FixedPrecedence ==
    Resolving =>
        \A u \in Requested :
            ResolvedAs(u).type = "dict" =>
                \A n \in RosterNames :
                    ResolvedAs(u).items[n] =
                        Precedence(SeenAccess(u, n), SeenOutside(u, n), SeenPending(u, n))

\* C1 witness: a collaborator with a leftover pending invitation is reported
\* MEMBER in one repository while a row also reports OUTSIDE
C1_Witness ==
    /\ Returned("list_repo_access")
    /\ ret.value.type = "dict"
    /\ \E n \in RosterNames :
          /\ ret.value.items[n] = MEMBER
          /\ SeenPending(ret.args[1], n)
    /\ \E n \in RosterNames : ret.value.items[n] = OUTSIDE

\* every stored response is what the remote system holds now
CacheCurrent == \A k \in DOMAIN cache : cache[k] = Data(k)

\* the outcome of the per-user path for username u: list_repo_access without
\* prefetched lists
PerUser(u) == ListRepoAccess(u, {}, Session(cache))

\* C2: with no stale response in the cache, the result of list_users on the
\* prefetch path (a batch at the threshold) equals, for every username, the
\* result the per-user path produces.
C2_PathsAgree ==
    (Returned("list_users") /\ ByList /\ CacheCurrent) =>
        \A u \in Requested :
            PerUser(u).exc = NoExc => ret.value.items[u] = PerUser(u).value

\* the lookup of username u, as the call met it
Lookup(u) == View(UserKey(u))

\* user u is a collaborator of repository n without being an outside one
IsMember(u, n) == u \in collab[n] \ outside[n]

\* the repositories on which the call issued add_to_collaborators, and those
\* that accepted it
Attempted == {ret.adds[i].repo : i \in 1..Len(ret.adds)}
Accepting == {ret.adds[i].repo : i \in {j \in 1..Len(ret.adds) : ret.adds[j].status \in {201, 204}}}

\* the call ended with the pair (added, message)
ReturnedTuple == ret.exc = NoExc /\ ret.value.type = "tuple"

\* add_user was called for a user the lookup found
AddingFound == ret.op = "add_user" /\ Lookup(ret.args[1]).status = 200

\* C3: add_user for a found user who is MEMBER of some repository issues no
\* add_to_collaborators call and returns (False, message), the message naming a
\* repository the user is a member of.
C3_MemberNoOp ==
    (AddingFound /\ \E n \in RosterNames : IsMember(ret.args[1], n)) =>
        /\ ret.adds = <<>>
        /\ ReturnedTuple
        /\ ~ret.value.added
        /\ \E n \in RosterNames :
              /\ IsMember(ret.args[1], n)
              /\ ret.value.message = <<"User is already an organization member of", n>>

\* C4: add_user for a found user who is MEMBER of no repository issues
\* add_to_collaborators on every repository of the roster.
C4_AddsToEvery ==
    (AddingFound /\ \A n \in RosterNames : ~IsMember(ret.args[1], n)) =>
        Attempted = RosterNames

\* C5: add_user returns the pair (added, message), added being True exactly
\* when some repository accepted add_to_collaborators.
C5_AddedIffAccepted ==
    ret.op = "add_user" =>
        /\ ReturnedTuple
        /\ ret.value.added <=> Accepting # {}

\* C6: add_users returns a dict holding a pair (added, message) for every
\* username of the call.
C6_EveryUsernameReported ==
    ret.op = "add_users" =>
        /\ ret.exc = NoExc
        /\ ret.value.type = "dict"
        /\ DOMAIN ret.value.items = Requested
        /\ \A u \in Requested : ret.value.items[u].type = "tuple"

\* C7: in the result of list_users, a username whose lookup finds no user maps
\* to None and is flashed by the table helper, and a username whose lookup
\* finds the user maps to a row and is given a table row.
C7_NotFoundDistinct ==
    Returned("list_users") =>
        \A u \in Requested :
            /\ u \in DOMAIN ret.value.items
            /\ Lookup(u).status = 404 =>
                  /\ ret.value.items[u] = None
                  /\ u \in CreateTable(ret.value).flashed
            /\ Lookup(u).status = 200 =>
                  /\ ret.value.items[u].type = "dict"
                  /\ u \in CreateTable(ret.value).rows

\* C7 witness: one result holds None for a login unknown to the remote system
\* and a row that is NO_ACCESS everywhere for a user it knows
C7_Witness ==
    /\ Returned("list_users")
    /\ \E u \in Requested : Lookup(u).status = 404 /\ ret.value.items[u] = None
    /\ \E u \in Requested :
          /\ Lookup(u).status = 200
          /\ ret.value.items[u] = Dict([n \in RosterNames |-> NO_ACCESS])

\* the outside collaborators of all repositories, as the scan fetched them
OutsideUnion == UNION {View(CollaboratorsKey(n, "outside")).body : n \in RosterNames}

\* C8: the keys of the result of list_outside_collaborators are exactly the
\* users in the union of the repositories' lists of outside collaborators.
C8_KeysAreOutsideUnion ==
    Returned("list_outside_collaborators") =>
        DOMAIN ret.value.items = OutsideUnion

\* C8 witness: the scan reports an outside collaborator and leaves out a user
\* who is a collaborator or an invitee of some repository
C8_Witness ==
    /\ Returned("list_outside_collaborators")
    /\ DOMAIN ret.value.items # {}
    /\ \E u \in Users \ DOMAIN ret.value.items :
          \E n \in RosterNames : u \in collab[n] \cup pending[n]

\* the response cache holds the three lists of repository n
Held(n) ==
    {CollaboratorsKey(n, "all"), CollaboratorsKey(n, "outside"), InvitationsKey(n)}
        \subseteq DOMAIN cache

\* C9: every status in the result of list_outside_collaborators, for a
\* repository whose three lists (all collaborators, outside collaborators,
\* pending invitees) the response cache holds, is the one the fixed precedence
\* of _list_user_repo_access gives for these lists.
C9_ScanPrecedence ==
    Returned("list_outside_collaborators") =>
        \A u \in DOMAIN ret.value.items :
            \A n \in RosterNames :
                Held(n) =>
                    ret.value.items[u].items[n] =
                        Precedence(u \in cache[CollaboratorsKey(n, "all")],
                                   u \in cache[CollaboratorsKey(n, "outside")],
                                   u \in cache[InvitationsKey(n)])

\* the rows of statuses in the result of the call
Rows ==
    IF Returned("list_repo_access") THEN {ret.value} \ {None}
    ELSE IF Returned("list_users") \/ Returned("list_outside_collaborators")
    THEN {ret.value.items[u] : u \in DOMAIN ret.value.items} \ {None}
    ELSE {}

\* C10: every row returned by list_repo_access, list_users or
\* list_outside_collaborators has exactly the roster's repositories as keys
\* and one of the four access statuses for each.
C10_RowsTotal ==
    \A row \in Rows :
        /\ DOMAIN row.items = RosterNames
        /\ \A n \in RosterNames : row.items[n] \in Access

\* C10 witness: a call returned two different rows
C10_Witness == \E r1, r2 \in Rows : r1 # r2

\* the GETs of the call that the remote system answered
Sent == SelectSeq(ret.log, LAMBDA e : ~e.hit)

\* list_users was called again with the usernames of the outcome kept, which
\* was a value
CalledAgain ==
    /\ ret.op = "list_users"
    /\ prev.op = "list_users"
    /\ prev.exc = NoExc
    /\ prev.args = ret.args

\* C11: list_users called again with the same usernames, clear_cache() not
\* having been called in between, returns the value it returned before and
\* sends no request to the remote system.
C11_SecondCallFromCache ==
    CalledAgain =>
        /\ ret.exc = NoExc
        /\ ret.value = prev.value
        /\ Sent = <<>>

\* C12: get_available_requests sends its request to the remote system on
\* every call and returns the number of core requests the remote system has
\* left at that moment.
C12_BudgetAlwaysFresh ==
    ret.op = "get_available_requests" =>
        /\ ret.exc = NoExc
        /\ ret.value = IntValue(remaining)
        /\ Sent # <<>>

\* the row of statuses the remote system's present state gives user u
Current(u) ==
    Dict([n \in RosterNames |->
            Precedence(u \in collab[n], u \in outside[n], u \in pending[n])])

\* a step takes no entry out of the cache and changes none, or it is
\* clear_cache()
OnlyClearRemoves ==
    (\E k \in DOMAIN cache : k \notin DOMAIN cache' \/ cache'[k] # cache[k]) =>
        /\ ret = Idle
        /\ ret' = Idle
        /\ cache' = EmptyCache

\* the first list_users or list_outside_collaborators after clear_cache()
\* classifies the remote system's present state
FreshAfterClear ==
    /\ (cleared /\ Returned("list_users")) =>
          \A u \in Requested :
              /\ Lookup(u).status = 200 => ret.value.items[u] = Current(u)
              /\ Lookup(u).status = 404 => ret.value.items[u] = None
    /\ (cleared /\ Returned("list_outside_collaborators")) =>
          /\ DOMAIN ret.value.items = UNION {outside[n] : n \in RosterNames}
          /\ \A u \in DOMAIN ret.value.items : ret.value.items[u] = Current(u)

\* C13: no step other than clear_cache() removes or changes a cache entry, and
\* the first list_users or list_outside_collaborators after clear_cache()
\* returns the classification of the remote system's state at that call.
C13_OnlyClearInvalidates == [][OnlyClearRemoves]_vars /\ []FreshAfterClear

\* C13 witness: after a change of the remote system and clear_cache(), a scan
\* reports a status for an outside collaborator
C13_Witness ==
    /\ cleared
    /\ changes > 0
    /\ Returned("list_outside_collaborators")
    /\ \E u \in DOMAIN ret.value.items : u \in Changing

\* the remote system refuses the lookup of user u, and the probe of user u in
\* repository n, for want of authorization
LookupRefused(u) == Lookup(u).status = 403
ProbeRefused(u, n) == ~ByList /\ View(ProbeKey(n, u)).status = 403

\* C14: a resolution the remote system refused for want of authorization is
\* reported neither as the not-found marker for the user whose lookup was
\* refused nor as NO_ACCESS for the repository whose probe was refused.
C14_RefusalSurfaced ==
    Resolving =>
        \A u \in Requested :
            /\ LookupRefused(u) => ResolvedAs(u) # None
            /\ ResolvedAs(u).type = "dict" =>
                  \A n \in RosterNames :
                      ProbeRefused(u, n) => ResolvedAs(u).items[n] # NO_ACCESS

\* the repositories whose add_to_collaborators the remote system would accept
Willing == RosterNames \ down

\* add_user was called for a found user who is MEMBER of no repository
AddingNonMember ==
    AddingFound /\ \A n \in RosterNames : ~IsMember(ret.args[1], n)

\* C15: add_user for a found user who is MEMBER nowhere returns (True, "")
\* when every repository accepts the addition, and (True, message) with a
\* message that is not empty when some repository accepts it and another
\* answers with an error.
C15_PartialSuccessReported ==
    (AddingNonMember /\ Willing # {}) =>
        /\ ReturnedTuple
        /\ ret.value.added
        /\ ret.value.message = <<>> <=> Willing = RosterNames

\* C16: add_user for a username the lookup does not find returns
\* (False, "Username not found"), asks for nothing but the user and issues no
\* add_to_collaborators call.
C16_NotFoundNoRequests ==
    (ret.op = "add_user" /\ Lookup(ret.args[1]).status = 404) =>
        /\ ReturnedTuple
        /\ ret.value = Tuple(FALSE, <<"Username not found">>)
        /\ \A i \in DOMAIN ret.log : ret.log[i].key = UserKey(ret.args[1])
        /\ ret.adds = <<>>

\* C16 witness: add_user for a login unknown to the remote system has returned
\* its pair after asking the remote system for the user
C16_Witness ==
    /\ ret.op = "add_user"
    /\ ret.args[1] \notin Users
    /\ ReturnedTuple
    /\ Len(Sent) = 1

\* C17: list_users returns a dict with an entry for every username, whatever
\* the remote system answers.
C17_BatchSurvivesErrors ==
    ret.op = "list_users" =>
        /\ ret.exc = NoExc
        /\ ret.value.type = "dict"
        /\ DOMAIN ret.value.items = Requested

\* the places of the log where the call asked for key, and those where the
\* remote system answered
Asked(key) == {i \in DOMAIN ret.log : ret.log[i].key = key}
Fetches(key) == {i \in Asked(key) : ~ret.log[i].hit}

\* the places of username u in the batch, and the usernames the lookup found
Places(u) == {i \in DOMAIN ret.args : ret.args[i] = u}
Found == {u \in Requested : Lookup(u).status = 200}

\* below the threshold: no list of all collaborators is asked for, and a call
\* that returns has sent one probe per repository for every place of a found
\* username
ProbesOnly ==
    /\ \A n \in RosterNames : Asked(CollaboratorsKey(n, "all")) = {}
    /\ ret.exc = NoExc =>
          \A u \in Found, n \in RosterNames :
              Cardinality(Fetches(ProbeKey(n, u))) = Cardinality(Places(u))

\* no probe is sent and no list of all collaborators is fetched twice
ListsOnly ==
    /\ \A u \in Requested, n \in RosterNames : Asked(ProbeKey(n, u)) = {}
    /\ \A n \in RosterNames : Cardinality(Fetches(CollaboratorsKey(n, "all"))) <= 1

\* C18 as stated: list_users asks for the list of all collaborators of every
\* repository exactly when the batch is at the threshold, fetching none twice;
\* below the threshold it sends one probe per repository and found username.
C18_PrefetchIffThreshold ==
    Returned("list_users") =>
        /\ ByList <=> \A n \in RosterNames : Asked(CollaboratorsKey(n, "all")) # {}
        /\ IF ByList THEN ListsOnly ELSE ProbesOnly

\* C18: at the threshold list_users sends no probe and fetches the list of all
\* collaborators of a repository at most once, on its first use: a call that
\* returns has asked for every list if some username was found and for none
\* otherwise. Below the threshold it asks for no such list and sends one probe
\* per repository for every place of a found username.
C18_ListsReadOnUse ==
    ret.op = "list_users" =>
        IF ByList
        THEN /\ ListsOnly
             /\ ret.exc = NoExc =>
                   \A n \in RosterNames :
                       Asked(CollaboratorsKey(n, "all")) # {} <=> Found # {}
        ELSE ProbesOnly

\* C18 witness: a batch at the threshold with two found usernames has fetched
\* the list of all collaborators of every repository once and read it again
C18_Witness ==
    /\ Returned("list_users")
    /\ ByList
    /\ Cardinality(Found) = 2
    /\ \A n \in RosterNames :
          /\ Cardinality(Fetches(CollaboratorsKey(n, "all"))) = 1
          /\ Cardinality(Asked(CollaboratorsKey(n, "all"))) > 1

\* the entries of the cache the last call went through that another manager
\* fetched and the call was served
ServedAcross ==
    {i \in DOMAIN ret.log :
        /\ ret.log[i].hit
        /\ sessions.fetcher[Bound(sessions.caller)][ret.log[i].key] # sessions.caller}

\* clear_cache() of a manager leaves the cache of every other session id as
\* it was
ClearSparesOthers ==
    (ret.op = "idle" /\ ret'.op = "clear_cache") =>
        \A id \in Ids \ {sessions'.caller} : sessions'.stores[id] = sessions.stores[id]

\* C19: the managers of two session ids have caches of their own: no call of a
\* manager is served a response that the other manager fetched, and
\* clear_cache() of a manager removes nothing from the other manager's cache.
C19_CachesApart ==
    /\ [][ClearSparesOthers]_vars
    /\ [](ret.op = "list_repo_access" => ServedAcross = {})

\* the manager's requests of the last web request that the cache answered
\* with a response stored before the request cleared the cache
StaleReads ==
    {i \in DOMAIN handler.log :
        /\ handler.log[i].hit
        /\ handler.log[i].key # RateLimitKey
        /\ ~\E j \in 1..(i - 1) :
              /\ handler.log[j].key = handler.log[i].key
              /\ ~handler.log[j].hit}

\* C20: a request that resolves or scans computes its table from responses
\* fetched during the request, and a request that provisions a batch leaves
\* the cache empty.
C20_ClearedAround ==
    /\ (handler.method = "POST" /\ handler.route \in {"check_users", "list_users"})
          => StaleReads = {}
    /\ (handler.method = "POST" /\ handler.route = "add_users")
          => cache = EmptyCache

====
